---------------------------- MODULE Spec2Model ----------------------------
(***************************************************************************)
(* A model of the QueryParamsEditor custom element                         *)
(* (src/query-param-editor.js).                                            *)
(*                                                                         *)
(* Text is modelled as a sequence of one-character strings, so that        *)
(* trimming, the form-urlencoded serializer and parser of URLSearchParams, *)
(* and the HTML attribute the row's initial value passes through are       *)
(* computed character by character.                                        *)
(***************************************************************************)
EXTENDS Integers, Sequences, FiniteSets, TLC

(***************************************************************************)
(* Bounds of the model.                                                    *)
(***************************************************************************)
\* the largest number of rows the table holds in the model
MaxRows == 2
\* the longest input text handed to parseUrlToData
MaxInputLen == 3

(***************************************************************************)
(* Text helpers.                                                           *)
(***************************************************************************)
\* the set of all texts over alphabet A of length at most n
TextsUpTo(A, n) == UNION {[1..k -> A] : k \in 0..n}

Contains(s, c) == \E i \in 1..Len(s) : s[i] = c

\* String.prototype.indexOf for a one-character needle, 1-based (0: absent)
IndexOf(s, c) ==
    IF Contains(s, c) THEN CHOOSE i \in 1..Len(s) : s[i] = c /\ \A j \in 1..(i-1) : s[j] # c
    ELSE 0

\* String.prototype.slice(from) with a 1-based start
SliceFrom(s, i) == SubSeq(s, i, Len(s))

\* the white space String.prototype.trim removes (the model's alphabets hold the space only)
IsSpace(c) == c = " "

RECURSIVE trimStart(_)
trimStart(s) == IF s # <<>> /\ IsSpace(Head(s)) THEN trimStart(Tail(s)) ELSE s

RECURSIVE trimEnd(_)
trimEnd(s) ==
    IF s # <<>> /\ IsSpace(s[Len(s)]) THEN trimEnd(SubSeq(s, 1, Len(s) - 1)) ELSE s

\* String.prototype.trim
trim(s) == trimEnd(trimStart(s))

(***************************************************************************)
(* application/x-www-form-urlencoded, as URLSearchParams implements it.    *)
(***************************************************************************)
HexDigits == <<"0","1","2","3","4","5","6","7","8","9","A","B","C","D","E","F">>

IsHex(c) == c \in {"0","1","2","3","4","5","6","7","8","9",
                   "A","B","C","D","E","F","a","b","c","d","e","f"}

HexVal(c) ==
    CASE c \in {"a","A"} -> 10 [] c \in {"b","B"} -> 11 [] c \in {"c","C"} -> 12
      [] c \in {"d","D"} -> 13 [] c \in {"e","E"} -> 14 [] c \in {"f","F"} -> 15
      [] OTHER -> CHOOSE n \in 0..9 : HexDigits[n + 1] = c

\* the characters the serializer leaves as they are
Unreserved == {"a","b","f","k","0","1","2","3","4","5","6","7","8","9",
               "A","B","C","D","E","F","*","-",".","_"}

\* the code points of the characters of the model's alphabets that are percent-encoded
CodeOf(c) ==
    CASE c = "\"" -> 34 [] c = "#" -> 35 [] c = "%" -> 37 [] c = "&" -> 38
      [] c = "+" -> 43 [] c = "=" -> 61 [] c = "?" -> 63 [] c = "[" -> 91
      [] c = "]" -> 93

\* the character of a decoded byte; a byte that is no character of the model's
\* alphabets decodes to the one-character text "<other>"
CharOf(n) ==
    CASE n = 32 -> " " [] n = 34 -> "\"" [] n = 35 -> "#" [] n = 37 -> "%"
      [] n = 38 -> "&" [] n = 42 -> "*" [] n = 43 -> "+" [] n = 61 -> "="
      [] n = 63 -> "?" [] n = 91 -> "[" [] n = 93 -> "]"
      [] n = 98 -> "b" [] n = 102 -> "f" [] n = 107 -> "k"
      [] n \in 48..57 -> HexDigits[n - 47]
      [] OTHER -> "<other>"

\* the urlencoded byte serializer, for one character
serializeChar(c) ==
    IF c = " " THEN <<"+">>
    ELSE IF c \in Unreserved THEN <<c>>
    ELSE <<"%", HexDigits[(CodeOf(c) \div 16) + 1], HexDigits[(CodeOf(c) % 16) + 1]>>

RECURSIVE serializeText(_)
serializeText(s) ==
    IF s = <<>> THEN <<>> ELSE serializeChar(Head(s)) \o serializeText(Tail(s))

\* percent-decode, after "+" was replaced by a space
RECURSIVE percentDecode(_)
percentDecode(s) ==
    IF s = <<>> THEN <<>>
    ELSE IF Head(s) = "%" /\ Len(s) >= 3 /\ IsHex(s[2]) /\ IsHex(s[3])
         THEN <<CharOf(16 * HexVal(s[2]) + HexVal(s[3]))>> \o percentDecode(SubSeq(s, 4, Len(s)))
    ELSE <<Head(s)>> \o percentDecode(Tail(s))

plusToSpace(s) == [i \in 1..Len(s) |-> IF s[i] = "+" THEN " " ELSE s[i]]

decodeText(s) == percentDecode(plusToSpace(s))

\* the texts between the separators c of s, in order
RECURSIVE splitOn(_, _)
splitOn(s, c) ==
    IF ~Contains(s, c) THEN <<s>>
    ELSE <<SubSeq(s, 1, IndexOf(s, c) - 1)>> \o splitOn(SliceFrom(s, IndexOf(s, c) + 1), c)

\* one name=value tuple of the urlencoded parser: split at the first "="
parseTuple(t) ==
    IF Contains(t, "=")
    THEN [name  |-> decodeText(SubSeq(t, 1, IndexOf(t, "=") - 1)),
          value |-> decodeText(SliceFrom(t, IndexOf(t, "=") + 1))]
    ELSE [name |-> decodeText(t), value |-> <<>>]

RECURSIVE parseTuples(_)
parseTuples(ts) ==
    IF ts = <<>> THEN <<>>
    ELSE IF Head(ts) = <<>> THEN parseTuples(Tail(ts))
    ELSE <<parseTuple(Head(ts))>> \o parseTuples(Tail(ts))

\* new URLSearchParams(search): one leading "?" is dropped, then the urlencoded parser
uspFromString(search) ==
    parseTuples(splitOn(IF search # <<>> /\ Head(search) = "?" THEN Tail(search) ELSE search,
                        "&"))

\* URLSearchParams.set: the first pair named k takes the value, the others named k go
uspSet(list, k, v) ==
    IF \E i \in 1..Len(list) : list[i].name = k
    THEN LET first == CHOOSE i \in 1..Len(list) :
                          list[i].name = k /\ \A j \in 1..(i-1) : list[j].name # k
             keep  == SelectSeq([i \in 1..Len(list) |->
                                   [idx |-> i, name |-> list[i].name, value |-> list[i].value]],
                                LAMBDA p : p.name # k \/ p.idx = first)
         IN [i \in 1..Len(keep) |->
               [name |-> keep[i].name, value |-> IF keep[i].name = k THEN v ELSE keep[i].value]]
    ELSE Append(list, [name |-> k, value |-> v])

\* URLSearchParams.toString
RECURSIVE uspToString(_)
uspToString(list) ==
    IF list = <<>> THEN <<>>
    ELSE serializeText(Head(list).name) \o <<"=">> \o serializeText(Head(list).value)
         \o (IF Tail(list) = <<>> THEN <<>> ELSE <<"&">> \o uspToString(Tail(list)))


(***************************************************************************)
(* JavaScript values, as far as the element inspects them.                 *)
(***************************************************************************)
\* a property of an item: undefined, or a text
Undef == [def |-> FALSE, s |-> <<>>]
Fld(s) == [def |-> TRUE, s |-> s]

\* an element of a data array: a record with its key and value properties, null,
\* or a number (whose key and value properties are undefined)
Rec(k, v) == [t |-> "rec", key |-> k, value |-> v]
NullItem == [t |-> "null", key |-> Undef, value |-> Undef]
NumItem == [t |-> "num", key |-> Undef, value |-> Undef]

\* a value: t is its type, items its elements (an array), len its length property
\* (an array's or a string's length, an object's own "length", 0 when it has none)
Arr(items) == [t |-> "arr", items |-> items, len |-> Len(items)]
Other(t, len) == [t |-> t, items |-> <<>>, len |-> len]

\* the texts of the model
tA == <<"a">>
t1 == <<"1">>
tQuoted == <<"a", "\"", "b">>

\* JSON.parse on the initial-data texts of the model: ok is FALSE when it throws
JSONparse(raw) ==
    CASE raw = "null"  -> [ok |-> TRUE, val |-> Other("null", 0)]
      [] raw = "5"     -> [ok |-> TRUE, val |-> Other("num", 0)]
      [] raw = "\"ab\"" -> [ok |-> TRUE, val |-> Other("str", 2)]
      [] raw = "\"\""  -> [ok |-> TRUE, val |-> Other("str", 0)]
      [] raw = "{}"    -> [ok |-> TRUE, val |-> Other("obj", 0)]
      [] raw = "{\"length\":1}" -> [ok |-> TRUE, val |-> Other("obj", 1)]
      [] raw = "{\"key\":\"a\",\"value\":\"1\"}" -> [ok |-> TRUE, val |-> Other("obj", 0)]
      [] raw = "[]"    -> [ok |-> TRUE, val |-> Arr(<<>>)]
      [] raw = "[1]"   -> [ok |-> TRUE, val |-> Arr(<<NumItem>>)]
      [] raw = "[{\"key\":\"a\",\"value\":\"1\"}]"
           -> [ok |-> TRUE, val |-> Arr(<<Rec(Fld(tA), Fld(t1))>>)]
      [] raw = "[{\"key\":\"a\",\"value\":\"\"},{\"key\":\"a\",\"value\":\"1\"}]"
           -> [ok |-> TRUE, val |-> Arr(<<Rec(Fld(tA), Fld(<<>>)), Rec(Fld(tA), Fld(t1))>>)]
      [] raw = "[{\"key\":\"a\",\"value\":\"1\"},null]"
           -> [ok |-> TRUE, val |-> Arr(<<Rec(Fld(tA), Fld(t1)), NullItem>>)]
      [] OTHER         -> [ok |-> FALSE, val |-> Arr(<<>>)]

\* getAttribute('initial-data'): "<null>" stands for the absent attribute
InitialDataTexts ==
    {"<null>", "", "not json", "null", "5", "\"ab\"", "\"\"", "{}", "{\"length\":1}",
     "{\"key\":\"a\",\"value\":\"1\"}", "[]", "[1]",
     "[{\"key\":\"a\",\"value\":\"1\"}]",
     "[{\"key\":\"a\",\"value\":\"\"},{\"key\":\"a\",\"value\":\"1\"}]",
     "[{\"key\":\"a\",\"value\":\"1\"},null]"}

\* the arguments setParams is called with
DataArgs ==
    {Other("undef", 0), Other("null", 0), Other("str", 2), Other("obj", 0),
     Arr(<<>>), Arr(<<NumItem>>), Arr(<<NullItem>>),
     Arr(<<Rec(Fld(tA), Fld(t1))>>),
     Arr(<<Rec(Fld(tQuoted), Fld(<<>>))>>),
     Arr(<<Rec(Fld(tA), Undef), Rec(Fld(tA), Fld(t1))>>),
     Arr(<<Rec(Fld(tA), Fld(t1)), NullItem>>)}

\* the arguments addRow is called with
AddRowKeys == {Undef, Fld(tA), Fld(tQuoted)}
AddRowVals == {Undef, Fld(t1)}

\* what the user types into a key or a value input
EditKeys == {<<>>, tA, <<" ", "a">>}
EditVals == {<<>>, t1}

(***************************************************************************)
(* The page: the elements a target selector can match.                     *)
(***************************************************************************)
Elements == {"inp", "div"}

\* el instanceof HTMLInputElement || el instanceof HTMLTextAreaElement
IsInputLike(e) == e = "inp"

\* getAttribute('target'); "<null>" stands for the absent attribute
Selectors == {"<null>", "#inp", "#div", ".qs", "#missing"}

\* document.querySelectorAll(selector)
Matches(sel) ==
    CASE sel = "#inp" -> {"inp"}
      [] sel = "#div" -> {"div"}
      [] sel = ".qs"  -> {"inp", "div"}
      [] OTHER        -> {}

\* what the page's elements hold before the editor writes to them
OldText == <<"o", "l", "d">>

(***************************************************************************)
(* The static method parseUrlToData.                                       *)
(***************************************************************************)
\* JSON.stringify of a text: quoted, a double quote escaped
RECURSIVE jsonEscape(_)
jsonEscape(s) ==
    IF s = <<>> THEN <<>>
    ELSE (IF Head(s) = "\"" THEN <<"\\", "\"">> ELSE <<Head(s)>>) \o jsonEscape(Tail(s))

jsonQuote(s) == <<"\"">> \o jsonEscape(s) \o <<"\"">>

RECURSIVE jsonPairs(_)
jsonPairs(arr) ==
    IF arr = <<>> THEN <<>>
    ELSE <<"{", "\"", "k", "e", "y", "\"", ":">> \o jsonQuote(Head(arr).key)
         \o <<",", "\"", "v", "a", "l", "u", "e", "\"", ":">> \o jsonQuote(Head(arr).value)
         \o <<"}">> \o (IF Tail(arr) = <<>> THEN <<>> ELSE <<",">> \o jsonPairs(Tail(arr)))

\* JSON.stringify of an array of {key, value}
JSONstringify(arr) == <<"[">> \o jsonPairs(arr) \o <<"]">>

\* for (const [key, value] of usp.entries()) arr.push({ key, value })
entriesToArr(usp) == [i \in 1..Len(usp) |-> [key |-> usp[i].name, value |-> usp[i].value]]

StringRet(text) == [type |-> "string", text |-> text, items |-> <<>>, obj |-> <<>>]
ArrayRet(items) == [type |-> "array", text |-> <<>>, items |-> items, obj |-> <<>>]
ObjectRet(obj) == [type |-> "object", text |-> <<>>, items |-> <<>>, obj |-> obj]
NoRet == [type |-> "none", text |-> <<>>, items |-> <<>>, obj |-> <<>>]

\* parseUrlToData(input, asArray) on the text after which the parameters are looked for
parseSearch(search, asArray) ==
    IF asArray THEN ArrayRet(entriesToArr(uspFromString(search)))
    ELSE StringRet(JSONstringify(entriesToArr(uspFromString(search))))

\* parseUrlToData(input, asArray)
parseUrlToData(input, asArray) ==
    IF Contains(input, "?") THEN parseSearch(SliceFrom(input, IndexOf(input, "?")), asArray)
    ELSE IF Contains(input, "=") THEN parseSearch(<<"?">> \o input, asArray)
    ELSE StringRet(<<"[", "]">>)

(***************************************************************************)
(* The state.                                                              *)
(***************************************************************************)
VARIABLES
    initialized,  \* this._initialized: _render has built the table
    rows,         \* the <tr> of this.tbody in order, each with the current values of its inputs
    target,       \* the target attribute
    els,          \* the page's elements: their value and their textContent
    last,         \* the last operation: its name, its argument, whether it threw
    arg,          \* the input of the last parseUrlToData call
    ret           \* what the last getParams or parseUrlToData call returned

vars == <<initialized, rows, target, els, last, arg, ret>>

\* n is the number of elements of the data array of setParams (0 otherwise); flag is
\* the append of setParams or the asArray of parseUrlToData (FALSE otherwise)
Op(op, n, flag, threw) == [op |-> op, n |-> n, flag |-> flag, threw |-> threw]

(***************************************************************************)
(* The element's methods, as functions of the row list.                    *)
(***************************************************************************)
\* a faulty variant of _getSearchParams: rows with an empty key are not skipped
RECURSIVE getSearchParamsNoSkip(_, _)
getSearchParamsNoSkip(rs, usp) ==
    IF rs = <<>> THEN usp
    ELSE getSearchParamsNoSkip(Tail(rs), uspSet(usp, trim(Head(rs).key), trim(Head(rs).value)))

\* _getSearchParams, over the rows rs left to visit: usp.set(k, v) for each row whose trimmed key k
\* is not empty
RECURSIVE getSearchParamsFrom(_, _)
getSearchParamsFrom(rs, usp) ==
    IF rs = <<>> THEN usp
    ELSE getSearchParamsFrom(Tail(rs),
           IF trim(Head(rs).key) # <<>>
           THEN uspSet(usp, trim(Head(rs).key), trim(Head(rs).value))
           ELSE usp)

getSearchParams(rs) == getSearchParamsFrom(rs, <<>>)

\* the derived query string: this._getSearchParams().toString()
QueryString(rs) == uspToString(getSearchParams(rs))

\* Object.fromEntries: a later entry of the same name overrides an earlier one
RECURSIVE fromEntries(_)
fromEntries(list) ==
    IF list = <<>> THEN <<>>
    ELSE LET before == fromEntries(SubSeq(list, 1, Len(list) - 1))
             e == list[Len(list)]
         IN [k \in DOMAIN before \cup {e.name} |-> IF k = e.name THEN e.value ELSE before[k]]

getParams(rs) == fromEntries(getSearchParams(rs))

\* the value the HTML parser reads from  value="${key}"  : the text up to the first
\* double quote (the model's alphabets hold no character reference)
attrValue(s) == IF Contains(s, "\"") THEN SubSeq(s, 1, IndexOf(s, "\"") - 1) ELSE s

\* a default parameter: '' for undefined
orEmpty(f) == IF f.def THEN f.s ELSE <<>>

\* addRow(key, val) on the row list rs
addRowTo(rs, key, val) ==
    Append(rs, [key |-> attrValue(orEmpty(key)), value |-> attrValue(orEmpty(val))])

\* items.forEach(i => this.addRow(i.key, i.value)): reading a property of null throws,
\* and the rows added before it stay
RECURSIVE addItems(_, _)
addItems(rs, items) ==
    IF items = <<>> THEN [rows |-> rs, threw |-> "none"]
    ELSE IF Head(items).t = "null" THEN [rows |-> rs, threw |-> "TypeError"]
    ELSE addItems(addRowTo(rs, Head(items).key, Head(items).value), Tail(items))

\* loadParams on the empty table
loadParams(raw) ==
    LET parsed == JSONparse(raw)
        items  == IF raw \notin {"<null>", ""} /\ parsed.ok THEN parsed.val ELSE Arr(<<>>)
    IN  IF items.t = "null" THEN [rows |-> <<>>, threw |-> "TypeError"]
        ELSE IF items.len # 0
             THEN IF items.t = "arr" THEN addItems(<<>>, items.items)
                  ELSE [rows |-> <<>>, threw |-> "TypeError"]
        ELSE [rows |-> addRowTo(<<>>, Undef, Undef), threw |-> "none"]

\* a faulty variant of updateQuery: every element is written through its value
publishValueOnly(es, sel, rs) ==
    [e \in Elements |->
        IF sel \notin {"<null>", ""} /\ e \in Matches(sel)
        THEN [es[e] EXCEPT !.value = QueryString(rs)]
        ELSE es[e]]

\* updateQuery: the elements after the query string of rs was written to those sel matches
publish(es, sel, rs) ==
    [e \in Elements |->
        IF sel \notin {"<null>", ""} /\ e \in Matches(sel)
        THEN IF IsInputLike(e) THEN [es[e] EXCEPT !.value = QueryString(rs)]
             ELSE [es[e] EXCEPT !.textContent = QueryString(rs)]
        ELSE es[e]]

\* a faulty variant of setParams: the table emptied by replacing with no data gets no row
setParamsRowsNoRefill(rs, data, append) ==
    IF append THEN addItems(rs, data.items) ELSE addItems(<<>>, data.items)

\* a faulty variant of setParams: the empty-data row is added when appending too
setParamsRowsRefillAlways(rs, data, append) ==
    LET r == addItems(IF append THEN rs ELSE <<>>, data.items)
    IN IF r.threw = "none" /\ data.len = 0
       THEN [rows |-> addRowTo(r.rows, Undef, Undef), threw |-> "none"]
       ELSE r

\* the rows setParams leaves and whether it threw; data is an array
setParamsRows(rs, data, append) ==
    IF append THEN addItems(rs, data.items)
    ELSE LET r == addItems(<<>>, data.items)
         IN IF r.threw = "none" /\ data.len = 0
            THEN [rows |-> addRowTo(r.rows, Undef, Undef), threw |-> "none"]
            ELSE r

(***************************************************************************)
(* The operations.                                                         *)
(***************************************************************************)
Init ==
    /\ initialized = FALSE
    /\ rows = <<>>
    /\ target = "<null>"
    /\ els = [e \in Elements |->
                IF IsInputLike(e) THEN [value |-> OldText, textContent |-> <<>>]
                ELSE [value |-> <<>>, textContent |-> OldText]]
    /\ last = Op("none", 0, FALSE, "none")
    /\ arg = <<>>
    /\ ret = NoRet

\* connectedCallback, with raw the initial-data attribute: _render, _bindEvents,
\* loadParams, updateQuery; when loadParams throws, updateQuery is not reached
Connect(raw) ==
    LET r == loadParams(raw)
    IN  /\ initialized' = TRUE
        /\ rows' = r.rows
        /\ els' = IF r.threw = "none" THEN publish(els, target, r.rows) ELSE els
        /\ last' = Op("connect", 0, FALSE, r.threw)
        /\ UNCHANGED <<target, arg, ret>>

\* setAttribute('target', sel) and attributeChangedCallback('target')
UpdateTarget(sel) ==
    /\ target' = sel
    /\ els' = IF initialized THEN publish(els, sel, rows) ELSE els
    /\ last' = Op("target", 0, FALSE, "none")
    /\ UNCHANGED <<initialized, rows, arg, ret>>

\* the user types into the key input of row i: its input listener runs updateQuery
InputKey(i, s) ==
    /\ initialized
    /\ i \in 1..Len(rows)
    /\ rows' = [rows EXCEPT ![i].key = s]
    /\ els' = publish(els, target, rows')
    /\ last' = Op("input", 0, FALSE, "none")
    /\ UNCHANGED <<initialized, target, arg, ret>>

\* the user types into the value input of row i
InputValue(i, s) ==
    /\ initialized
    /\ i \in 1..Len(rows)
    /\ rows' = [rows EXCEPT ![i].value = s]
    /\ els' = publish(els, target, rows')
    /\ last' = Op("input", 0, FALSE, "none")
    /\ UNCHANGED <<initialized, target, arg, ret>>

\* a click on the add button: this.addRow()
ClickAdd ==
    /\ initialized
    /\ Len(rows) < MaxRows
    /\ rows' = addRowTo(rows, Undef, Undef)
    /\ last' = Op("clickAdd", 0, FALSE, "none")
    /\ UNCHANGED <<initialized, target, els, arg, ret>>

\* a click on the delete button of row i: tr.remove(); this.updateQuery()
RemoveRow(i) ==
    /\ initialized
    /\ i \in 1..Len(rows)
    /\ rows' = SubSeq(rows, 1, i - 1) \o SubSeq(rows, i + 1, Len(rows))
    /\ els' = publish(els, target, rows')
    /\ last' = Op("removeRow", 0, FALSE, "none")
    /\ UNCHANGED <<initialized, target, arg, ret>>

\* the method addRow(key, val), called by a script; before connectedCallback there is
\* no this.tbody, and appendChild throws
AddRow(key, val) ==
    /\ Len(rows) < MaxRows
    /\ rows' = IF initialized THEN addRowTo(rows, key, val) ELSE rows
    /\ last' = Op("addRow", 0, FALSE, IF initialized THEN "none" ELSE "TypeError")
    /\ UNCHANGED <<initialized, target, els, arg, ret>>

\* the method setParams(data, append); undefined data takes the default []
SetParams(d, append) ==
    LET data == IF d.t = "undef" THEN Arr(<<>>) ELSE d
        r == setParamsRows(rows, data, append)
    IN  /\ data.t = "arr" => Len(r.rows) <= MaxRows
        /\ IF data.t # "arr"
           THEN /\ last' = Op("setParams", 0, append, "Error")
                /\ UNCHANGED <<rows, els>>
           ELSE IF ~initialized
           THEN /\ last' = Op("setParams", data.len, append, "TypeError")
                /\ UNCHANGED <<rows, els>>
           ELSE /\ rows' = r.rows
                /\ els' = IF r.threw = "none" THEN publish(els, target, r.rows) ELSE els
                /\ last' = Op("setParams", data.len, append, r.threw)
        /\ UNCHANGED <<initialized, target, arg, ret>>

Next ==
    \/ \E raw \in InitialDataTexts : Connect(raw)
    \/ \E sel \in Selectors : UpdateTarget(sel)
    \/ \E i \in 1..MaxRows, s \in EditKeys : InputKey(i, s)
    \/ \E i \in 1..MaxRows, s \in EditVals : InputValue(i, s)
    \/ ClickAdd
    \/ \E i \in 1..MaxRows : RemoveRow(i)
    \/ \E k \in AddRowKeys, v \in AddRowVals : AddRow(k, v)
    \/ \E d \in DataArgs, append \in BOOLEAN : SetParams(d, append)

Spec == Init /\ [][Next]_vars

(***************************************************************************)
(* getParams and the round trip through the query string, on tables whose  *)
(* rows the user has typed.                                                *)
(***************************************************************************)
RowKeys == {<<>>, <<" ">>, <<"a">>, <<" ", "a">>, <<"&", "=">>, <<"k", " ", "?">>}
RowVals == {<<>>, <<"1">>, <<" ", "+", "\"">>, <<"%", "2", "6">>}
RowSet == [key : RowKeys, value : RowVals]

InitRows ==
    /\ initialized = TRUE
    /\ rows \in UNION {[1..n -> RowSet] : n \in 0..MaxRows}
    /\ target = "<null>"
    /\ els = [e \in Elements |->
                IF IsInputLike(e) THEN [value |-> OldText, textContent |-> <<>>]
                ELSE [value |-> <<>>, textContent |-> OldText]]
    /\ last = Op("none", 0, FALSE, "none")
    /\ arg = <<>>
    /\ ret = NoRet

\* the method getParams()
GetParams ==
    /\ ret' = ObjectRet(getParams(rows))
    /\ last' = Op("getParams", 0, FALSE, "none")
    /\ UNCHANGED <<initialized, rows, target, els, arg>>

\* parseUrlToData on the query string updateQuery derives from the rows
ParseQuery(asArray) ==
    /\ arg' = QueryString(rows)
    /\ ret' = parseUrlToData(arg', asArray)
    /\ last' = Op("parseQuery", 0, asArray, "none")
    /\ UNCHANGED <<initialized, rows, target, els>>

NextRows ==
    \/ GetParams
    \/ \E asArray \in BOOLEAN : ParseQuery(asArray)

SpecRows == InitRows /\ [][NextRows]_vars

(***************************************************************************)
(* parseUrlToData on every short text.                                     *)
(***************************************************************************)
ParseAlphabet == {"k", "?", "=", "&", "+", "%", "2", "6"}

InitParse ==
    /\ initialized = FALSE
    /\ rows = <<>>
    /\ target = "<null>"
    /\ els = [e \in Elements |->
                IF IsInputLike(e) THEN [value |-> OldText, textContent |-> <<>>]
                ELSE [value |-> <<>>, textContent |-> OldText]]
    /\ last = Op("none", 0, FALSE, "none")
    /\ arg \in TextsUpTo(ParseAlphabet, MaxInputLen)
    /\ ret = NoRet

ParseUrl(asArray) ==
    /\ ret' = parseUrlToData(arg, asArray)
    /\ last' = Op("parse", 0, asArray, "none")
    /\ UNCHANGED <<initialized, rows, target, els, arg>>

NextParse == \E asArray \in BOOLEAN : ParseUrl(asArray)

SpecParse == InitParse /\ [][NextParse]_vars

(***************************************************************************)
(* The operations a page and its user perform, without the script-only     *)
(* method addRow(key, val).                                                *)
(***************************************************************************)
NextListed ==
    \/ \E raw \in InitialDataTexts : Connect(raw)
    \/ \E sel \in Selectors : UpdateTarget(sel)
    \/ \E i \in 1..MaxRows, s \in EditKeys : InputKey(i, s)
    \/ \E i \in 1..MaxRows, s \in EditVals : InputValue(i, s)
    \/ ClickAdd
    \/ \E i \in 1..MaxRows : RemoveRow(i)
    \/ \E d \in DataArgs, append \in BOOLEAN : SetParams(d, append)

SpecListed == Init /\ [][NextListed]_vars

(***************************************************************************)
(* Properties.                                                             *)
(***************************************************************************)
EmptyRow == [key |-> <<>>, value |-> <<>>]

\* what a target element shows: its value if it is input-like, else its text content
ContentOf(es, e) == IF IsInputLike(e) THEN es[e].value ELSE es[e].textContent

\* a data array all of whose elements are records
IsPairSequence(d) ==
    d.t = "arr" /\ \A i \in 1..Len(d.items) : d.items[i].t = "rec"

\* the rows a pair list asks for: one per pair, in order
RowsOfPairs(items) ==
    [i \in 1..Len(items) |-> [key |-> orEmpty(items[i].key), value |-> orEmpty(items[i].value)]]

\* the initial rows the initial-data text raw asks for: one row per pair of a non-empty
\* pair list, and one empty row for every other text
ExpectedInitialRows(raw) ==
    IF raw \notin {"<null>", ""} /\ JSONparse(raw).ok /\ IsPairSequence(JSONparse(raw).val)
       /\ JSONparse(raw).val.len > 0
    THEN RowsOfPairs(JSONparse(raw).val.items)
    ELSE <<EmptyRow>>

\* C1: initialization never raises an error and leaves one empty row for every
\* initial-data text that is no non-empty pair list, and one row per pair otherwise.
C1_InitializeNeverRaises ==
    [][\A raw \in InitialDataTexts :
          Connect(raw) => (last'.threw = "none" /\ rows' = ExpectedInitialRows(raw))]_vars

\* C2: setParams on an initialized editor fails with the InvalidArgument error whenever
\* its argument is not a sequence of pair-like records, and a failing call leaves the
\* rows and the target elements as they were.
C2_SetParamsFailsWhole ==
    [][\A d \in DataArgs, append \in BOOLEAN :
          (initialized /\ SetParams(d, append))
          => /\ (d.t # "undef" /\ ~IsPairSequence(d)) => last'.threw = "Error"
             /\ last'.threw # "none" => (rows' = rows /\ els' = els)]_vars

\* C3: after setParams([], false) on an initialized editor the table holds exactly one
\* row, with an empty key and an empty value.
C3_SetEmptyLeavesOneEmptyRow ==
    (initialized /\ last.op = "setParams" /\ last.threw # "Error" /\ last.n = 0 /\ ~last.flag)
    => (last.threw = "none" /\ rows = <<EmptyRow>>)

C3_Witness ==
    /\ initialized /\ last.op = "setParams" /\ last.threw = "none" /\ last.n = 0 /\ ~last.flag
    /\ rows = <<EmptyRow>>
    /\ \E e \in Elements : ContentOf(els, e) = <<>>

\* C4: setParams([], true) on a non-empty table leaves the row sequence as it was.
C4_AppendEmptyKeepsRows ==
    [][\A d \in {Arr(<<>>), Other("undef", 0)} :
          (initialized /\ rows # <<>> /\ SetParams(d, TRUE))
          => (rows' = rows /\ last'.threw = "none")]_vars

C4_Witness ==
    /\ initialized /\ last.op = "setParams" /\ last.threw = "none" /\ last.n = 0 /\ last.flag
    /\ Len(rows) = 2 /\ rows[1] # rows[2]

\* the keys of the rows after trimming
TrimmedKeys(rs) == {trim(rs[i].key) : i \in 1..Len(rs)}

\* the last row whose trimmed key is k
LastRowOf(rs, k) ==
    CHOOSE i \in 1..Len(rs) :
        trim(rs[i].key) = k /\ \A j \in (i+1)..Len(rs) : trim(rs[j].key) # k

\* C5: getParams returns the mapping whose keys are the non-empty trimmed keys of the
\* rows, each with the trimmed value of the last row of that key.
C5_GetParamsMapping ==
    last.op = "getParams"
    => /\ ret.type = "object"
       /\ DOMAIN ret.obj = TrimmedKeys(rows) \ {<<>>}
       /\ \A k \in DOMAIN ret.obj : ret.obj[k] = trim(rows[LastRowOf(rows, k)].value)

C5_Witness ==
    /\ last.op = "getParams"
    /\ Len(rows) = 2
    /\ rows[1].key # rows[2].key /\ trim(rows[1].key) = trim(rows[2].key)
    /\ trim(rows[1].key) # <<>>
    /\ rows[1].value # rows[2].value
    /\ ret.obj[trim(rows[1].key)] = trim(rows[2].value)

\* the key -> value mapping of a sequence of pairs, a later pair overriding an earlier one
RECURSIVE PairsMapping(_)
PairsMapping(items) ==
    IF items = <<>> THEN <<>>
    ELSE LET before == PairsMapping(SubSeq(items, 1, Len(items) - 1))
             e == items[Len(items)]
         IN [k \in DOMAIN before \cup {e.key} |-> IF k = e.key THEN e.value ELSE before[k]]

\* C6: parseUrlToData, asked for an array, on the derived query string of the rows
\* yields a sequence of pairs whose mapping is what getParams returns on the rows.
C6_RoundTrip ==
    (last.op = "parseQuery" /\ last.flag)
    => (ret.type = "array" /\ PairsMapping(ret.items) = getParams(rows))

\* the pairs of a text, in order, duplicates kept
PairsOf(text) == entriesToArr(parseTuples(splitOn(text, "&")))

\* C7: parseUrlToData, asked for an array, returns a sequence of pairs for every input:
\* the empty one when the input holds neither "?" nor "=", else the pairs of the text
\* after the first "?", or of the whole input when it holds no "?".
C7_ParseReturnsSequence ==
    (last.op = "parse" /\ last.flag)
    => /\ ret.type = "array"
       /\ ret.items = IF Contains(arg, "?") THEN PairsOf(SliceFrom(arg, IndexOf(arg, "?") + 1))
                      ELSE IF Contains(arg, "=") THEN PairsOf(arg)
                      ELSE <<>>

\* C8: on an initialized editor, right after the target is set to a selector matching
\* elements, each of them shows the derived query string of the rows, and no other
\* element is written.
C8_UpdateTargetRepublishes ==
    [][\A sel \in Selectors :
          (initialized /\ Matches(sel) # {} /\ UpdateTarget(sel))
          => /\ \A e \in Matches(sel) : ContentOf(els', e) = QueryString(rows)
             /\ \A e \in Matches(sel) : els'[e] = [els[e] EXCEPT
                    ![IF IsInputLike(e) THEN "value" ELSE "textContent"] = QueryString(rows)]
             /\ \A e \in Elements \ Matches(sel) : els'[e] = els[e]
             /\ last'.threw = "none"]_vars

C8_Witness ==
    /\ initialized /\ last.op = "target" /\ target = "#div"
    /\ QueryString(rows) # <<>>
    /\ els["div"].textContent = QueryString(rows)
    /\ els["inp"].value \notin {QueryString(rows), OldText}

\* C9: on an initialized editor the elements the target matches show the derived query
\* string of the rows, after any sequence of the operations of NextListed.
C9_TargetInSync ==
    initialized => \A e \in Matches(target) : ContentOf(els, e) = QueryString(rows)

\* C10: addRow(key, val) on an initialized editor appends one row holding the key and
\* the value given, keeps the rows before it and writes no target element.
C10_AddRowAppendsGiven ==
    [][\A k \in AddRowKeys, v \in AddRowVals :
          (initialized /\ AddRow(k, v))
          => /\ rows' = Append(rows, [key |-> orEmpty(k), value |-> orEmpty(v)])
             /\ els' = els]_vars

=============================================================================
